---- MODULE Spec2Model ----
\* A model of tools/translate.py: the rule interpreter process_rule and the
\* driver main.  A Python str is a sequence of one-character strings, so that
\* lower(), strip(), startswith(), re.escape() and %-formatting are computed
\* and not assumed.  A YAML value is a record [type, map, items]: type is the Python
\* type's name, map the items of a dict and items the elements of a list.
EXTENDS Naturals, Sequences, FiniteSets

VARIABLES
  pc,               \* where the running program is
  mode,             \* main: mode / process_rule: processing_level
  idspace,          \* main: idspace / process_rule: idspace
  rule,             \* the rule record of the current call of process_rule
  frame,            \* process_rule's locals and outcome when the call ended
  argv,             \* main: the parsed command line (args.mode, args.yaml_file.name)
  document,         \* main: what yaml.load returned
  i,                \* main: how many rules of document['purl_rules'] the loop has taken
  htaccess_file,    \* main: the strings written to args.htaccess_file, in order
  exc,              \* main: the exception that ended the run (<< >>: none)
  calls             \* main: the rules handed to process_rule, in call order

vars == <<pc, mode, idspace, rule, frame, argv, document, i, htaccess_file, exc, calls>>

-----------------------------------------------------------------------------
\* Python's str operations.

UpperCase == <<"A","B","C","D","E","F","G","H","I","J","K","L","M","N","O","P","Q","R","S","T",
      "U","V","W","X","Y","Z">>

LowerCase == <<"a","b","c","d","e","f","g","h","i","j","k","l","m","n","o","p","q","r","s","t",
      "u","v","w","x","y","z">>

Digits == <<"0","1","2","3","4","5","6","7","8","9">>

Range(s) == {s[k] : k \in 1..Len(s)}

\* str.lower(), one character
LowerChar(c) ==
  IF c \in Range(UpperCase)
    THEN LowerCase[CHOOSE k \in 1..Len(UpperCase) : UpperCase[k] = c]
    ELSE c

\* str.lower()
Lower(s) == [k \in 1..Len(s) |-> LowerChar(s[k])]

\* str.startswith(p)
StartsWith(s, p) == Len(p) <= Len(s) /\ SubSeq(s, 1, Len(p)) = p

WhiteSpace == {" ", "\t", "\n"}

\* str.strip()
Strip(s) ==
  LET keep == {k \in 1..Len(s) : s[k] \notin WhiteSpace}
  IN  IF keep = {} THEN << >>
      ELSE SubSeq(s, CHOOSE a \in keep : \A b \in keep : a <= b,
                     CHOOSE a \in keep : \A b \in keep : b <= a)

\* re.escape(): every character but an ASCII letter, a digit and "_" gets a
\* backslash in front
RECURSIVE re_escape(_)
re_escape(s) ==
  IF s = << >> THEN << >>
  ELSE (IF Head(s) \in Range(UpperCase) \cup Range(LowerCase) \cup Range(Digits) \cup {"_"}
          THEN <<Head(s)>>
          ELSE <<"\\", Head(s)>>) \o re_escape(Tail(s))

\* str.replace(old, new), old not empty: the occurrences of old, left to right
RECURSIVE Replace(_, _, _)
Replace(s, old, new) ==
  IF s = << >> THEN << >>
  ELSE IF StartsWith(s, old) THEN new \o Replace(SubSeq(s, Len(old) + 1, Len(s)), old, new)
  ELSE <<Head(s)>> \o Replace(Tail(s), old, new)

\* sep.join(strs)
RECURSIVE Join(_, _)
Join(strs, sep) ==
  IF strs = << >> THEN << >>
  ELSE IF Len(strs) = 1 THEN strs[1]
  ELSE strs[1] \o sep \o Join(Tail(strs), sep)

\* os.path.basename(): what follows the last "/"
basename(p) ==
  LET seps == {k \in 1..Len(p) : p[k] = "/"}
  IN  IF seps = {} THEN p
      ELSE SubSeq(p, (CHOOSE a \in seps : \A b \in seps : b <= a) + 1, Len(p))

\* os.path.splitext(p)[0] of a name without "/": what precedes the last ".",
\* unless only "." characters precede it
splitext_root(p) ==
  LET dots == {k \in 1..Len(p) : p[k] = "."}
      dot  == CHOOSE a \in dots : \A b \in dots : b <= a
  IN  IF dots = {} THEN p
      ELSE IF \E k \in 1..(dot - 1) : p[k] # "." THEN SubSeq(p, 1, dot - 1)
      ELSE p

\* fmt % args of a format with n conversions: the text of the format and what
\* the conversions put into it.  A format without a conversion applied to a
\* dict is the format itself: Python raises no "not all arguments converted"
\* for a mapping, and nothing of the dict reaches the message.
Format(text, n, strs, rules) ==
  [text |-> text,
   strs |-> IF n = 0 THEN << >> ELSE strs,
   rules |-> IF n = 0 THEN << >> ELSE rules]

NoMessage == [text |-> "", strs |-> << >>, rules |-> << >>]

-----------------------------------------------------------------------------
\* YAML values.

EmptyMap == [k \in {} |-> << >>]

\* a YAML map with the items of m
Dict(m) == [type |-> "dict", map |-> m, items |-> << >>]

\* a YAML list of the values xs
List(xs) == [type |-> "list", map |-> EmptyMap, items |-> xs]

\* a YAML scalar: the program reads nothing of it but its type
Scalar == [type |-> "str", map |-> EmptyMap, items |-> << >>]

\* key in rule
Has(r, key) == key \in DOMAIN r.map

\* rule[key]
Get(r, key) == r.map[key]

-----------------------------------------------------------------------------
\* The messages of the ValueErrors, with the number of conversions of each.

NotAMap == "Not a YAML map:\n%s"

MissingType == "Rule does not have a valid type:\n%s"

MultipleTypes == "Rule has multiple types: %s\n%s"

TermBrowserReplacement == "term_browser rules do not use \"replacement\":\n"

MissingReplacement == "Missing \"replacement\" field:\n"

RegexWithoutLevel == "regex rule must have a \"level\":\n%s"

UnknownBrowser == "Unknown term_browser \"%s\":\n%s"

BadPath == "Bad path \"%s\" for IDSPACE \"%s\":\n%s"

BadPrefix == "Bad prefix \"%s\" for IDSPACE \"%s\":\n%s"

InvalidLevel == "Level must be \"project\" or \"top\", not \"%s\":\n%s"

TopLevelPollution == "Invalid top-level rule for IDSPACE \"%s\":\n%s"

InvalidStatus == "Invalid status \"%s\" for rule:\n%s"

InvalidMode == "Processing mode must be \"project\" or \"top\", not \"%s\""

NoRulesFound == "No purl_rules found in %s"

-----------------------------------------------------------------------------
\* process_rule.  A frame holds the locals of one call; outcome is "running"
\* until the call returns None ("None"), returns a string ("str", in value) or
\* raises ("raise", in message).

Raise(f, msg) == [f EXCEPT !.outcome = "raise", !.message = msg]

\* s.strip(), re.escape(), then "\/" back to "/"
clean_source(s) == Replace(re_escape(Strip(s)), <<"\\", "/">>, <<"/">>)

\* '/obo' for OBO, else '/obo/' + idspace.lower()
base_url(ids) == IF ids = <<"O","B","O">> THEN <<"/","o","b","o">> ELSE <<"/","o","b","o","/">>
      \o Lower(ids)

\* the locals as the function's first lines set them
enter(ids) ==
  [outcome |-> "running", value |-> << >>, message |-> NoMessage,
   base_url |-> base_url(ids), rule_type |-> << >>,
   path |-> << >>, prefix |-> << >>, source |-> << >>, replacement |-> << >>,
   rule_level |-> <<"t","o","p">>, status |-> <<"t","e","m","p","o","r","a","r","y">>]

\* type(rule) is not dict
check_map(f, r) ==
  IF r.type # "dict" THEN Raise(f, Format(NotAMap, 1, << >>, <<r>>)) ELSE f

\* types: the type keys of the rule, in the order the code appends them
types_of(r) ==
  (IF Has(r, "path") THEN <<<<"p","a","t","h">>>> ELSE << >>)
  \o (IF Has(r, "prefix") THEN <<<<"p","r","e","f","i","x">>>> ELSE << >>)
  \o (IF Has(r, "regex") THEN <<<<"r","e","g","e","x">>>> ELSE << >>)
  \o (IF Has(r, "term_browser") THEN <<<<"t","e","r","m","_","b","r","o","w","s","e",
        "r">>>> ELSE << >>)

\* determine_type without the check for several type keys: the first one wins
determine_type_first(f, r) ==
  IF f.outcome # "running" THEN f
  ELSE IF Len(types_of(r)) < 1 THEN Raise(f, Format(MissingType, 1, << >>, <<r>>))
  ELSE [f EXCEPT !.rule_type = types_of(r)[1]]

\* exactly one type key, or a ValueError
determine_type(f, r) ==
  IF f.outcome # "running" THEN f
  ELSE IF Len(types_of(r)) < 1 THEN Raise(f, Format(MissingType, 1, << >>, <<r>>))
  ELSE IF Len(types_of(r)) > 1 THEN Raise(f, Format(MultipleTypes, 2, <<Join(types_of(r), <<",",
        " ">>)>>, <<r>>))
  ELSE [f EXCEPT !.rule_type = types_of(r)[1]]

\* replacement_blank without strip()
replacement_blank_unstripped(r) ==
  \/ ~ Has(r, "replacement")
  \/ Get(r, "replacement") = << >>

\* not 'replacement' in rule or rule['replacement'].strip() == ''
replacement_blank(r) ==
  \/ ~ Has(r, "replacement")
  \/ Strip(Get(r, "replacement")) = << >>

\* a term_browser rule has no replacement, every other rule a non-blank one
validate_replacement(f, r) ==
  IF f.outcome # "running" THEN f
  ELSE IF f.rule_type = <<"t","e","r","m","_","b","r","o","w","s","e","r">>
    THEN IF Has(r, "replacement")
           THEN Raise(f, Format(TermBrowserReplacement, 0, << >>, <<r>>))
           ELSE f
    ELSE IF replacement_blank(r)
           THEN Raise(f, Format(MissingReplacement, 0, << >>, <<r>>))
           ELSE f

\* rule['term_browser'].lower() == 'ontobee'
is_ontobee(r) == Lower(Get(r, "term_browser")) = <<"o","n","t","o","b","e","e">>

\* browser_status left at the status every rule starts with
browser_status_temporary == <<"t","e","m","p","o","r","a","r","y">>

\* the status a term_browser rule starts with
browser_status == <<"s","e","e"," ","o","t","h","e","r">>

\* the source and the replacement of the rule, by its type
handle_rule(f, ids, r) ==
  IF f.outcome # "running" THEN f
  ELSE IF f.rule_type = <<"p","a","t","h">> THEN
    [f EXCEPT !.path = Get(r, "path"),
              !.source = <<"(","?","i",")","^">> \o clean_source(Get(r, "path")) \o <<"$">>,
              !.replacement = Get(r, "replacement")]
  ELSE IF f.rule_type = <<"p","r","e","f","i","x">> THEN
    [f EXCEPT !.prefix = Get(r, "prefix"),
              !.source = <<"(","?","i",")","^">> \o clean_source(Get(r, "prefix"))
                    \o <<"(",".","*",")","$">>,
              !.replacement = Get(r, "replacement") \o <<"$","1">>]
  ELSE IF f.rule_type = <<"r","e","g","e","x">> THEN
    IF ~ Has(r, "level")
      THEN Raise(f, Format(RegexWithoutLevel, 1, << >>, <<r>>))
      ELSE [f EXCEPT !.source = Get(r, "regex"),
                     !.replacement = Get(r, "replacement")]
  ELSE
    IF is_ontobee(r)
      THEN [f EXCEPT !.source = <<"(","?","i",")","^","/","o","b","o","/">> \o ids
            \o <<"_","(","\\","d","+",")","$">>,
                     !.replacement =
                         <<"h","t","t","p",":","/","/","w","w","w",".","o","n","t","o","b","e",
                               "e",".","o","r","g","/","b","r","o","w","s","e","r","/","r","d",
                               "f",".","p","h","p","?","o","=">> \o ids
                         \o <<"&","i","r","i","=","h","t","t","p",":","/","/","p","u","r","l",".",
                               "o","b","o","l","i","b","r","a","r","y",".","o","r","g","/","o",
                               "b","o","/">> \o ids \o <<"_","$","1">>,
                     !.rule_level = <<"t","o","p">>,
                     !.status = browser_status]
      ELSE Raise(f, Format(UnknownBrowser, 2, <<Get(r, "term_browser")>>, <<r>>))

\* s.lower().startswith(base_url)
in_idspace(s, base) == StartsWith(Lower(s), base)

\* check_idspace that looks at paths only
check_idspace_path_only(f, ids, r) ==
  IF f.outcome # "running" THEN f
  ELSE IF f.rule_type = <<"p","a","t","h">> /\ ~ in_idspace(f.path, f.base_url)
    THEN Raise(f, Format(BadPath, 3, <<f.path, ids>>, <<r>>))
  ELSE f

\* a path or a prefix outside the IDSPACE is a ValueError
check_idspace(f, ids, r) ==
  IF f.outcome # "running" THEN f
  ELSE IF f.rule_type = <<"p","a","t","h">> /\ ~ in_idspace(f.path, f.base_url)
    THEN Raise(f, Format(BadPath, 3, <<f.path, ids>>, <<r>>))
  ELSE IF f.rule_type = <<"p","r","e","f","i","x">> /\ ~ in_idspace(f.prefix, f.base_url)
    THEN Raise(f, Format(BadPrefix, 3, <<f.prefix, ids>>, <<r>>))
  ELSE f

\* rule['level'].lower() in ('project', 'top')
level_known(r) == Lower(Get(r, "level")) \in {<<"p","r","o","j","e","c","t">>, <<"t","o","p">>}

\* the rule_level of a rule without a 'level' key
implied_level(f) ==
  IF StartsWith(Lower(f.path), f.base_url \o <<"/">>) THEN <<"p","r","o","j","e","c","t">>
  ELSE IF StartsWith(Lower(f.prefix), f.base_url \o <<"/">>) THEN <<"p","r","o","j","e","c","t">>
  ELSE IF f.rule_type = <<"t","e","r","m","_","b","r","o","w","s","e","r">> THEN <<"t","o","p">>
  ELSE f.rule_level

\* determine_level with the implied level tried before the 'level' key
determine_level_implied_first(f, r) ==
  IF f.outcome # "running" THEN f
  ELSE IF Has(r, "level") /\ ~ level_known(r)
    THEN Raise(f, Format(InvalidLevel, 2, <<Get(r, "level")>>, <<r>>))
  ELSE IF implied_level(f) = <<"p","r","o","j","e","c","t">> \/ ~ Has(r, "level")
    THEN [f EXCEPT !.rule_level = implied_level(f)]
  ELSE [f EXCEPT !.rule_level = Lower(Get(r, "level"))]

\* rule_level: the 'level' key, or what the path or prefix implies
determine_level(f, r) ==
  IF f.outcome # "running" THEN f
  ELSE IF Has(r, "level")
    THEN IF level_known(r)
           THEN [f EXCEPT !.rule_level = Lower(Get(r, "level"))]
           ELSE Raise(f, Format(InvalidLevel, 2, <<Get(r, "level")>>, <<r>>))
    ELSE [f EXCEPT !.rule_level = implied_level(f)]

\* other_level without the check of the TOP mode
other_level_project_only(processing_level, rule_level) ==
  processing_level = <<"p","r","o","j","e","c","t">> /\ rule_level = <<"t","o","p">>

\* a TOP rule in PROJECT mode, a PROJECT rule in TOP mode
other_level(processing_level, rule_level) ==
  \/ processing_level = <<"p","r","o","j","e","c","t">> /\ rule_level = <<"t","o","p">>
  \/ processing_level = <<"t","o","p">> /\ rule_level = <<"p","r","o","j","e","c","t">>

\* return None for a rule of the other level
filter_level(f, processing_level) ==
  IF f.outcome # "running" THEN f
  ELSE IF other_level(processing_level, f.rule_level)
    THEN [f EXCEPT !.outcome = "None"]
    ELSE f

\* top_allowed with startswith() for ==
top_allowed_startswith(f, ids) ==
  \/ f.rule_type = <<"r","e","g","e","x">>
  \/ f.rule_type = <<"t","e","r","m","_","b","r","o","w","s","e","r">>
  \/ f.rule_type = <<"p","a","t","h">> /\ StartsWith(f.path, f.base_url)
  \/ f.prefix = <<"/","o","b","o","/">> \o ids \o <<"_">>

\* the rules TOP mode lets through
top_allowed(f, ids) ==
  \/ f.rule_type = <<"r","e","g","e","x">>
  \/ f.rule_type = <<"t","e","r","m","_","b","r","o","w","s","e","r">>
  \/ f.path = f.base_url
  \/ f.path = f.base_url \o <<".","o","w","l">>
  \/ f.path = f.base_url \o <<".","o","b","o">>
  \/ f.prefix = <<"/","o","b","o","/">> \o ids \o <<"_">>

\* in TOP mode every other rule is a ValueError
check_top(f, processing_level, ids, r) ==
  IF f.outcome # "running" THEN f
  ELSE IF processing_level = <<"t","o","p">> /\ ~ top_allowed(f, ids)
    THEN Raise(f, Format(TopLevelPollution, 2, <<ids>>, <<r>>))
    ELSE f

\* rule['status'] in ('permanent', 'temporary', 'see other')
status_known(r) == Get(r, "status") \in {<<"p","e","r","m","a","n","e","n","t">>,
      <<"t","e","m","p","o","r","a","r","y">>, <<"s","e","e"," ","o","t","h","e","r">>}

\* status: the 'status' key, when the rule has one
validate_status(f, r) ==
  IF f.outcome # "running" THEN f
  ELSE IF Has(r, "status")
    THEN IF status_known(r)
           THEN [f EXCEPT !.status = Get(r, "status")]
           ELSE Raise(f, Format(InvalidStatus, 2, <<Get(r, "status")>>, <<r>>))
    ELSE f

\* apache_status that renames 'temporary' only
apache_status_temporary_only(status) ==
  IF status = <<"t","e","m","p","o","r","a","r","y">> THEN <<"t","e","m","p">> ELSE status

\* Apache's names of the statuses
apache_status(status) ==
  IF status = <<"t","e","m","p","o","r","a","r","y">> THEN <<"t","e","m","p">>
  ELSE IF status = <<"s","e","e"," ","o","t","h","e","r">> THEN <<"s","e","e","o","t","h","e",
        "r">>
  ELSE status

\* 'RedirectMatch %s "%s" "%s"' % (status, source, replacement)
directive(status, source, replacement) ==
  <<"R","e","d","i","r","e","c","t","M","a","t","c","h"," ">> \o status \o <<" ","\"">> \o source
        \o <<"\""," ","\"">> \o replacement \o <<"\"">>

\* the directive is returned
emit(f) ==
  IF f.outcome # "running" THEN f
  ELSE [f EXCEPT !.outcome = "str",
                 !.status = apache_status(f.status),
                 !.value = directive(apache_status(f.status), f.source, f.replacement)]

\* process_rule(processing_level, idspace, rule): the frame when the call ends
process_rule(processing_level, ids, r) ==
  emit(
   validate_status(
    check_top(
     filter_level(
      determine_level(
       check_idspace(
        handle_rule(
         validate_replacement(
          determine_type(
           check_map(enter(ids), r), r), r), ids, r), ids, r), r),
      processing_level),
     processing_level, ids, r), r))

-----------------------------------------------------------------------------
\* The unit tests: one call of process_rule on a processing level, an idspace
\* and a rule.

Idspaces == {<<"O","B","I">>, <<"O","B","O">>}

Modes == {<<"p","r","o","j","e","c","t">>, <<"t","o","p">>, <<"t","e","s","t">>}

TypeKeys == {"path", "prefix", "regex", "term_browser"}

\* the URL strings of path and prefix rules: for OBI its base URL, its base
\* URL in another case, URLs below it (one with a trailing blank), its .owl
\* file, /obo/obi_core.owl, its term prefix, and URLs of other namespaces;
\* for OBO its base URL /obo, /obo.owl, its term prefix and URLs below /obo/
Urls ==
  {<<"/","o","b","o","/","o","b","i">>,
   <<"/","o","b","o","/","O","B","I">>,
   <<"/","o","b","o","/","o","b","i","/">>,
   <<"/","o","b","o","/","O","B","I","/","x"," ">>,
   <<"/","o","b","o","/","o","b","i",".","o","w","l">>,
   <<"/","o","b","o","/","o","b","i","_","c","o","r","e",".","o","w","l">>,
   <<"/","o","b","o","/","O","B","I","_">>,
   <<"/","o","b","o","/","c","h","e","b","i","/">>,
   <<"f","o","o">>,
   <<"/","o","b","o">>,
   <<"/","o","b","o",".","o","w","l">>,
   <<"/","o","b","o","/","O","B","O","_">>}

\* a regular expression: ^/obo/(obi|OBI)_(\d+)$
Regexes == {<<"^","/","o","b","o","/","(","o","b","i","|","O","B","I",")","_","(","\\","d","+",
      ")","$">>}

\* the values of term_browser: ontobee, Ontobee and one that is unknown
Browsers == {<<"o","n","t","o","b","e","e">>, <<"O","n","t","o","b","e","e">>, <<"f","o","o">>}

TypeValues == [path |-> Urls, prefix |-> Urls, regex |-> Regexes, term_browser |-> Browsers]

\* the replacements: empty, a blank and a tab, and foo
Replacements == {<< >>, <<" ","\t">>, <<"f","o","o">>}

Levels == {<<"p","r","o","j","e","c","t">>, <<"t","o","p">>, <<"T","O","P">>, <<"b","a","r">>}

Statuses == {<<"p","e","r","m","a","n","e","n","t">>, <<"t","e","m","p","o","r","a","r","y">>,
      <<"s","e","e"," ","o","t","h","e","r">>, <<"P","e","r","m","a","n","e","n","t">>}

\* no value, or one of S
Opt(S) == {{}} \cup {{v} : v \in S}

\* the value of a type key in a rule that has several type keys
FirstValue ==
  [path |-> <<"f","o","o">>, prefix |-> <<"f","o","o">>, regex |-> CHOOSE v \in Regexes : TRUE,
   term_browser |-> <<"o","n","t","o","b","e","e">>]

\* the type keys of a rule: none or one with any of its values, or several
TypeChoices ==
  {t \in [TypeKeys -> UNION {Opt(TypeValues[k]) : k \in TypeKeys}] :
     /\ \A k \in TypeKeys : t[k] \subseteq TypeValues[k]
     /\ \/ Cardinality({k \in TypeKeys : t[k] # {}}) <= 1
        \/ \A k \in TypeKeys : t[k] \subseteq {FirstValue[k]}}

\* the dict of the keys that have a value
Items(t, rep, lev, st) ==
  LET opt == [k \in TypeKeys \cup {"replacement", "level", "status"} |->
                IF k \in TypeKeys THEN t[k]
                ELSE IF k = "replacement" THEN rep
                ELSE IF k = "level" THEN lev
                ELSE st]
  IN  [k \in {k \in DOMAIN opt : opt[k] # {}} |-> CHOOSE v \in opt[k] : TRUE]

\* the rules process_rule is called on: YAML maps with string values, and a
\* YAML value that is no map
Rules ==
  {Dict(Items(t, rep, lev, st)) :
     t \in TypeChoices, rep \in Opt(Replacements), lev \in Opt(Levels), st \in Opt(Statuses)}
  \cup {Scalar}

NoRule == [type |-> "NoneType", map |-> EmptyMap, items |-> << >>]

NoFrame ==
  [outcome |-> "", value |-> << >>, message |-> NoMessage,
   base_url |-> << >>, rule_type |-> << >>,
   path |-> << >>, prefix |-> << >>, source |-> << >>, replacement |-> << >>,
   rule_level |-> << >>, status |-> << >>]

NoArgs == [mode |-> << >>, yaml_file |-> << >>]

Init ==
  /\ pc = "test"
  /\ mode \in Modes
  /\ idspace \in Idspaces
  /\ rule \in Rules
  /\ frame = NoFrame
  /\ argv = NoArgs
  /\ document = NoRule
  /\ i = 0
  /\ htaccess_file = << >>
  /\ exc = NoMessage
  /\ calls = << >>

\* a test calls process_rule and looks at what it returns or raises
test_process_rule ==
  /\ pc = "test"
  /\ frame' = process_rule(mode, idspace, rule)
  /\ pc' = "returned"
  /\ UNCHANGED <<mode, idspace, rule, argv, document, i, htaccess_file, exc, calls>>

Next == test_process_rule

Spec == Init /\ [][Next]_vars

-----------------------------------------------------------------------------
\* main: the driver.

MaxRules == 2

FileNames == {<<"c","o","n","f","i","g","/","O","B","I",".","y","m","l">>,
      <<"O","B","O",".","y","m","l">>}

ModeArgs == {<<"p","r","o","j","e","c","t">>, <<"t","o","p">>, <<"T","O","P">>, <<"f","o","o">>}

\* the rules of the documents
DocRules ==
  {Dict([path |-> <<"/","o","b","o","/","o","b","i","/">>, replacement |-> <<"f","o","o">>]),
   Dict([path |-> <<"/","o","b","o","/","o","b","i",".","o","w","l">>,
         replacement |-> <<"f","o","o">>]),
   Dict([prefix |-> <<"/","o","b","o","/","O","B","I","_">>, replacement |-> <<"f","o","o">>,
         status |-> <<"p","e","r","m","a","n","e","n","t">>]),
   Dict([term_browser |-> <<"o","n","t","o","b","e","e">>]),
   Dict([path |-> <<"/","o","b","o","/","o","b","i","_","c","o","r","e",".","o","w","l">>,
         replacement |-> <<"f","o","o">>]),
   Dict([path |-> <<"/","o","b","o">>, replacement |-> <<"f","o","o">>]),
   Dict([replacement |-> <<"f","o","o">>]),
   Scalar}

\* the documents: with a list of rules, without 'purl_rules', and with a
\* 'purl_rules' that is no list
Documents ==
  {Dict([k \in {"purl_rules"} |-> List(rs)]) :
     rs \in UNION {[1..n -> DocRules] : n \in 0..MaxRules}}
  \cup {Dict([k \in {"idspace"} |-> Scalar]), Dict([k \in {"purl_rules"} |-> Scalar])}

InitMain ==
  /\ pc = "main"
  /\ argv \in [mode : ModeArgs, yaml_file : FileNames]
  /\ document \in Documents
  /\ mode = << >>
  /\ idspace = << >>
  /\ rule = NoRule
  /\ frame = NoFrame
  /\ i = 0
  /\ htaccess_file = << >>
  /\ exc = NoMessage
  /\ calls = << >>

\* 'purl_rules' in document and type(document['purl_rules']) is list
has_rules(doc) == Has(doc, "purl_rules") /\ Get(doc, "purl_rules").type = "list"

\* document['purl_rules']
purl_rules(doc) == Get(doc, "purl_rules").items

\* project_template % name
project_header(name) ==
  <<"#"," ","D","O"," ","N","O","T"," ","E","D","I","T"," ","T","H","I","S"," ","F","I","L","E",
        "!","\n","#"," ","A","u","t","o","m","a","t","i","c","a","l","l","y"," ","g","e","n","e",
        "r","a","t","e","d"," ","f","r","o","m"," ","\"">> \o name
  \o <<"\"",".","\n","#"," ","E","d","i","t"," ","t","h","a","t"," ","s","o","u","r","c","e"," ",
        "f","i","l","e"," ","t","h","e","n"," ","r","e","g","e","n","e","r","a","t","e"," ","t",
        "h","i","s"," ","f","i","l","e",".","\n","\n">>

\* top_template % idspace
top_header(ids) == <<"#"," ","T","o","p","-","l","e","v","e","l"," ","r","u","l","e","s"," ","f",
      "o","r"," ">> \o ids \o <<"\n">>

\* the arguments are parsed, the mode lowered, the idspace taken from the file's name
main_args ==
  /\ pc = "main"
  /\ mode' = Lower(argv.mode)
  /\ idspace' = splitext_root(basename(argv.yaml_file))
  /\ pc' = "header"
  /\ UNCHANGED <<rule, frame, argv, document, i, htaccess_file, exc, calls>>

\* the header of the mode is written, or the run ends with a ValueError
main_header ==
  /\ pc = "header"
  /\ IF has_rules(document)
       THEN IF mode = <<"p","r","o","j","e","c","t">>
              THEN /\ htaccess_file' = Append(htaccess_file, project_header(argv.yaml_file))
                   /\ pc' = "loop"
                   /\ exc' = exc
            ELSE IF mode = <<"t","o","p">>
              THEN /\ htaccess_file' = Append(htaccess_file, top_header(idspace))
                   /\ pc' = "loop"
                   /\ exc' = exc
            ELSE /\ exc' = [text |-> InvalidMode, strs |-> <<mode>>, rules |-> << >>]
                 /\ pc' = "raised"
                 /\ htaccess_file' = htaccess_file
       ELSE /\ exc' = Format(NoRulesFound, 1, <<argv.yaml_file>>, << >>)
            /\ pc' = "raised"
            /\ htaccess_file' = htaccess_file
  /\ UNCHANGED <<mode, idspace, rule, frame, argv, document, i, calls>>

\* if result:
truthy(f) == f.outcome = "str" /\ f.value # << >>

\* main_rule that goes on to the next rule after a ValueError
main_rule_keep_going ==
  /\ pc = "loop"
  /\ i < Len(purl_rules(document))
  /\ rule' = purl_rules(document)[i + 1]
  /\ frame' = process_rule(mode, idspace, rule')
  /\ calls' = Append(calls, rule')
  /\ htaccess_file' = IF truthy(frame')
                         THEN Append(htaccess_file, frame'.value \o <<"\n">>)
                         ELSE htaccess_file
  /\ exc' = IF frame'.outcome = "raise" THEN frame'.message ELSE exc
  /\ i' = i + 1
  /\ UNCHANGED <<pc, mode, idspace, argv, document>>

\* one round of the loop: the next rule is processed and its directive written;
\* a ValueError of process_rule ends the run
main_rule ==
  /\ pc = "loop"
  /\ i < Len(purl_rules(document))
  /\ rule' = purl_rules(document)[i + 1]
  /\ frame' = process_rule(mode, idspace, rule')
  /\ calls' = Append(calls, rule')
  /\ IF frame'.outcome = "raise"
       THEN /\ exc' = frame'.message
            /\ pc' = "raised"
            /\ UNCHANGED <<i, htaccess_file>>
       ELSE /\ htaccess_file' = IF truthy(frame')
                                  THEN Append(htaccess_file, frame'.value \o <<"\n">>)
                                  ELSE htaccess_file
            /\ i' = i + 1
            /\ UNCHANGED <<pc, exc>>
  /\ UNCHANGED <<mode, idspace, argv, document>>

\* after the last rule: the blank line of the top mode
main_end ==
  /\ pc = "loop"
  /\ i = Len(purl_rules(document))
  /\ htaccess_file' = IF mode = <<"t","o",
        "p">> THEN Append(htaccess_file, <<"\n">>) ELSE htaccess_file
  /\ pc' = "exit"
  /\ UNCHANGED <<mode, idspace, rule, frame, argv, document, i, exc, calls>>

NextMain == main_args \/ main_header \/ main_rule \/ main_end

SpecMain == InitMain /\ [][NextMain]_vars

-----------------------------------------------------------------------------
\* What the claims say, in their own terms: the conditions below are read off
\* the rule, the idspace and the mode, not off process_rule's frame.

ValidLevels == {<<"p","r","o","j","e","c","t">>, <<"t","o","p">>}

ValidStatuses == {<<"p","e","r","m","a","n","e","n","t">>,
      <<"t","e","m","p","o","r","a","r","y">>, <<"s","e","e"," ","o","t","h","e","r">>}

\* the call of process_rule has ended
Returned == pc = "returned"

\* the call raised the ValueError of this message
Raised(text) == frame.outcome = "raise" /\ frame.message.text = text

\* how many of path, prefix, regex, term_browser the rule has
TypeCount(r) == Cardinality({k \in TypeKeys : Has(r, k)})

\* a rule of one type, and that type
IsOfType(r, k) == r.type = "dict" /\ TypeCount(r) = 1 /\ Has(r, k)

\* the base URL of a namespace
ClaimBase(ids) == IF ids = <<"O","B","O">> THEN <<"/","o","b","o">> ELSE <<"/","o","b","o","/">>
      \o Lower(ids)

\* the replacement is absent or blank: it holds nothing but white space
ClaimBlank(r) ==
  \/ ~ Has(r, "replacement")
  \/ \A k \in 1..Len(Get(r, "replacement")) : Get(r, "replacement")[k] \in {" ", "\t", "\n"}

\* the replacement a rule of its type must or must not have
ClaimReplacementOk(r) ==
  IF Has(r, "term_browser") THEN ~ Has(r, "replacement") ELSE ~ ClaimBlank(r)

\* a regex rule has a level, a term_browser rule names ontobee
ClaimVariantOk(r) ==
  /\ Has(r, "regex") => Has(r, "level")
  /\ Has(r, "term_browser") => Lower(Get(r, "term_browser")) = <<"o","n","t","o","b","e","e">>

\* the path or the prefix starts, whatever the case, with the base URL
ClaimInNamespace(r, ids) ==
  \A k \in {"path", "prefix"} : Has(r, k) => StartsWith(Lower(Get(r, k)), ClaimBase(ids))

\* the rule passes the checks made before its level is resolved
ClaimPassesEarly(r, ids) ==
  /\ r.type = "dict"
  /\ TypeCount(r) = 1
  /\ ClaimReplacementOk(r)
  /\ ClaimVariantOk(r)
  /\ ClaimInNamespace(r, ids)

\* the level field, when there is one, is project or top in some case
ClaimLevelOk(r) == Has(r, "level") => Lower(Get(r, "level")) \in ValidLevels

\* the effective level, in the order of priority
ClaimLevel(r, ids) ==
  IF Has(r, "level") THEN Lower(Get(r, "level"))
  ELSE IF \E k \in {"path", "prefix"} :
            Has(r, k) /\ StartsWith(Lower(Get(r, k)), ClaimBase(ids) \o <<"/">>)
    THEN <<"p","r","o","j","e","c","t">>
  ELSE IF Has(r, "term_browser") THEN <<"t","o","p">>
  ELSE <<"t","o","p">>

\* the mode leaves out the rules of this level
ClaimSuppresses(m, lev) ==
  \/ m = <<"p","r","o","j","e","c","t">> /\ lev = <<"t","o","p">>
  \/ m = <<"t","o","p">> /\ lev = <<"p","r","o","j","e","c","t">>

\* the shapes a top-level rule may have
ClaimTopShape(r, ids) ==
  \/ Has(r, "regex")
  \/ Has(r, "term_browser")
  \/ Has(r, "path") /\ Get(r, "path") \in {ClaimBase(ids), ClaimBase(ids) \o <<".","o","w","l">>,
                                           ClaimBase(ids) \o <<".","o","b","o">>}
  \/ Has(r, "prefix") /\ Get(r, "prefix") = <<"/","o","b","o","/">> \o ids \o <<"_">>

\* the rule passes every check made before its status is read, and the mode
\* does not leave it out
ClaimReachesStatus(m, r, ids) ==
  /\ ClaimPassesEarly(r, ids)
  /\ ClaimLevelOk(r)
  /\ ~ ClaimSuppresses(m, ClaimLevel(r, ids))
  /\ m = <<"t","o","p">> => ClaimTopShape(r, ids)

\* the keyword of a status
ClaimKeyword(st) ==
  IF st = <<"p","e","r","m","a","n","e","n","t">> THEN <<"p","e","r","m","a","n","e","n","t">>
  ELSE IF st = <<"t","e","m","p","o","r","a","r","y">> THEN <<"t","e","m","p">>
  ELSE <<"s","e","e","o","t","h","e","r">>

-----------------------------------------------------------------------------
\* C1: whatever the mode, the namespace and its other fields, a rule record
\* with none of path, prefix, regex, term_browser fails with MissingType and
\* one with two or more of them fails with MultipleTypes; neither a directive
\* nor None is returned for it.
C1_TypeCount ==
  Returned /\ rule.type = "dict" =>
    /\ TypeCount(rule) = 0 => Raised(MissingType)
    /\ TypeCount(rule) >= 2 => Raised(MultipleTypes)

C1_Witness ==
  /\ Returned /\ rule.type = "dict" /\ TypeCount(rule) >= 2
  /\ Has(rule, "level") /\ Has(rule, "status") /\ mode = <<"t","o","p">>
  /\ Raised(MultipleTypes)

\* C2: a rule that passes the type, replacement, namespace and level checks
\* is suppressed (None, no error) exactly when the mode is project and its
\* level top, or the mode top and its level project; a path or prefix rule
\* without a level that equals the base URL is suppressed in project mode,
\* one that starts with the base URL and "/" is suppressed in top mode; no
\* rule yields a directive in both modes.
C2_Suppressed ==
  Returned =>
    /\ ClaimPassesEarly(rule, idspace) /\ ClaimLevelOk(rule) =>
         (frame.outcome = "None" <=> ClaimSuppresses(mode, frame.rule_level))
    /\ frame.outcome = "None" => ClaimPassesEarly(rule, idspace) /\ ClaimLevelOk(rule)
    /\ \A k \in {"path", "prefix"} :
         IsOfType(rule, k) /\ ~ Has(rule, "level") /\ ~ ClaimBlank(rule) =>
           /\ Get(rule, k) = ClaimBase(idspace) /\ mode = <<"p","r","o","j","e","c","t">>
                => frame.outcome = "None"
           /\ StartsWith(Get(rule, k), ClaimBase(idspace) \o <<"/">>) /\ mode = <<"t","o","p">>
                => frame.outcome = "None"
    /\ ~ ( /\ process_rule(<<"p","r","o","j","e","c","t">>, idspace, rule).outcome = "str"
           /\ process_rule(<<"t","o","p">>, idspace, rule).outcome = "str" )

C2_Witness ==
  /\ Returned /\ mode = <<"t","o","p">> /\ idspace = <<"O","B","I">>
  /\ IsOfType(rule, "path") /\ Get(rule, "path") = <<"/","o","b","o","/","o","b","i","/">>
  /\ ~ Has(rule, "level") /\ ~ ClaimBlank(rule)
  /\ frame.outcome = "None"

\* C3 as stated: an explicit level that is neither project nor top makes
\* process_rule fail with InvalidLevel, for every variant and every mode
\* (read here for the rules of one type that have the replacement their type
\* asks for, and with the level compared whatever its case).
C3_InvalidLevelAlways ==
  Returned /\ rule.type = "dict" /\ TypeCount(rule) = 1 /\ ClaimReplacementOk(rule)
    /\ Has(rule, "level") /\ Lower(Get(rule, "level")) \notin ValidLevels
  => Raised(InvalidLevel)

\* C3, amended: the effective level is the explicit level field, read
\* whatever its case, else project for a path or prefix that starts with the
\* base URL and "/", else top for a term_browser rule, else top; a rule whose
\* level field is neither project nor top always fails, with InvalidLevel
\* when it passes the checks made before the level is resolved (type,
\* replacement, variant, namespace) and with the error of the first of those
\* checks it fails otherwise.
C3_LevelOrder ==
  Returned /\ rule.type = "dict" =>
    /\ ClaimPassesEarly(rule, idspace) /\ ClaimLevelOk(rule)
         => frame.rule_level = ClaimLevel(rule, idspace)
    /\ ~ ClaimLevelOk(rule) =>
         /\ frame.outcome = "raise"
         /\ ClaimPassesEarly(rule, idspace) <=> Raised(InvalidLevel)

C3_Witness ==
  /\ Returned /\ idspace = <<"O","B","I">>
  /\ IsOfType(rule, "path") /\ Get(rule, "path") = <<"/","o","b","o","/","o","b","i",
        "/">> /\ ~ ClaimBlank(rule)
  /\ Has(rule, "level") /\ Get(rule, "level") = <<"T","O","P">>
  /\ frame.rule_level = <<"t","o","p">>
  /\ frame.outcome \in {"None", "str", "raise"}

\* C4: in top mode a directive is emitted only for a rule of level top that
\* is a regex rule, a term_browser rule, a path equal to the base URL, to it
\* with ".owl" or to it with ".obo", or a prefix equal to /obo/<namespace>_;
\* every other rule whose level is top, given or inferred, fails with
\* TopLevelPollution.
C4_TopLevelPollution ==
  Returned /\ mode = <<"t","o","p">> =>
    /\ frame.outcome = "str" =>
         /\ ClaimPassesEarly(rule, idspace) /\ ClaimLevelOk(rule)
         /\ ClaimLevel(rule, idspace) = <<"t","o","p">>
         /\ ClaimTopShape(rule, idspace)
    /\ /\ ClaimPassesEarly(rule, idspace) /\ ClaimLevelOk(rule)
       /\ ClaimLevel(rule, idspace) = <<"t","o","p">>
       /\ ~ ClaimTopShape(rule, idspace)
       => Raised(TopLevelPollution)

C4_Witness ==
  /\ Returned /\ mode = <<"t","o","p">> /\ idspace = <<"O","B","I">>
  /\ IsOfType(rule, "path") /\ Get(rule, "path") = <<"/","o","b","o","/","o","b","i","_","c","o",
        "r","e",".","o","w","l">>
  /\ ~ Has(rule, "level") /\ ~ ClaimBlank(rule)
  /\ Raised(TopLevelPollution)

\* C5 as stated: a path or prefix rule whose value does not start with the
\* base URL of the namespace fails with a namespace mismatch, whatever its
\* other fields are.
C5_MismatchAlways ==
  Returned =>
    /\ IsOfType(rule, "path") /\ ~ ClaimInNamespace(rule, idspace) => Raised(BadPath)
    /\ IsOfType(rule, "prefix") /\ ~ ClaimInNamespace(rule, idspace) => Raised(BadPrefix)

\* C5, amended: in every mode a path or prefix rule whose value does not
\* start, whatever the case, with the base URL of the namespace always fails:
\* with a namespace mismatch when its replacement is present and not blank,
\* and with ReplacementError when it is not; it is never emitted and never
\* suppressed, whatever its level and status fields are.
C5_NamespaceMismatch ==
  Returned =>
    \A k \in {"path", "prefix"} :
      IsOfType(rule, k) /\ ~ StartsWith(Lower(Get(rule, k)), ClaimBase(idspace)) =>
        IF ClaimBlank(rule) THEN Raised(MissingReplacement)
        ELSE Raised(IF k = "path" THEN BadPath ELSE BadPrefix)

C5_Witness ==
  /\ Returned /\ mode = <<"t","o","p">> /\ idspace = <<"O","B","I">>
  /\ IsOfType(rule, "prefix") /\ Get(rule, "prefix") = <<"/","o","b","o","/","c","h","e","b","i",
        "/">>
  /\ ~ ClaimBlank(rule)
  /\ Has(rule, "level") /\ Get(rule, "level") = <<"p","r","o","j","e","c","t">>
  /\ Raised(BadPrefix)

\* an ontobee rule, in any case, without a replacement
IsOntobee(r) ==
  /\ IsOfType(r, "term_browser")
  /\ Lower(Get(r, "term_browser")) = <<"o","n","t","o","b","e","e">>
  /\ ~ Has(r, "replacement")

\* the directive starts with RedirectMatch and this keyword
HasKeyword(kw) ==
  frame.outcome = "str" /\ StartsWith(frame.value, <<"R","e","d","i","r","e","c","t","M","a","t",
        "c","h"," ">> \o kw \o <<" ","\"">>)

\* C6 as stated: an ontobee rule without a replacement is suppressed in
\* project mode and emitted with the keyword seeother in top mode, also when
\* it carries a level or a status field.
C6_ForcedAlways ==
  Returned /\ IsOntobee(rule) =>
    /\ mode = <<"p","r","o","j","e","c","t">> => frame.outcome = "None"
    /\ mode = <<"t","o","p">> => HasKeyword(<<"s","e","e","o","t","h","e","r">>)

\* C6, amended: for an ontobee rule without a replacement, 'see other' and
\* top are what the rule starts with, and its own fields come first: without
\* a level field its level is top (suppressed in project mode), with a valid
\* one its level is that field's; when it is emitted, its keyword is seeother
\* without a status field and that of the status field with a valid one.  A
\* rule with neither field is suppressed in project mode and emitted with
\* seeother in top mode.
C6_OntobeeDefaults ==
  Returned /\ IsOntobee(rule) =>
    /\ ~ Has(rule, "level") /\ ~ Has(rule, "status") =>
         /\ mode = <<"p","r","o","j","e","c","t">> => frame.outcome = "None"
         /\ mode = <<"t","o","p">> => HasKeyword(<<"s","e","e","o","t","h","e","r">>)
    /\ ~ Has(rule, "level") => frame.rule_level = <<"t","o","p">>
    /\ Has(rule, "level") /\ ClaimLevelOk(rule)
         => frame.rule_level = Lower(Get(rule, "level"))
    /\ frame.outcome = "str" /\ ~ Has(rule, "status") => HasKeyword(<<"s","e","e","o","t","h","e",
          "r">>)
    /\ frame.outcome = "str" /\ Has(rule, "status")
         => HasKeyword(ClaimKeyword(Get(rule, "status")))

C6_Witness ==
  /\ Returned /\ IsOntobee(rule) /\ Get(rule, "term_browser") = <<"O","n","t","o","b","e","e">>
  /\ ~ Has(rule, "level") /\ ~ Has(rule, "status")
  /\ mode = <<"t","o","p">> /\ HasKeyword(<<"s","e","e","o","t","h","e","r">>)

\* C7: in every mode and namespace a rule of one type fails with
\* ReplacementError when it is a term_browser rule with a replacement field
\* and when it is a path, prefix or regex rule whose replacement is absent or
\* blank; the check comes before any variant, namespace, level or status
\* check, so such a rule is never emitted or suppressed.
C7_ReplacementError ==
  Returned /\ rule.type = "dict" /\ TypeCount(rule) = 1 =>
    /\ Has(rule, "term_browser") /\ Has(rule, "replacement")
         => Raised(TermBrowserReplacement)
    /\ ~ Has(rule, "term_browser") /\ ClaimBlank(rule) => Raised(MissingReplacement)

C7_Witness ==
  /\ Returned /\ IsOfType(rule, "prefix") /\ ~ ClaimInNamespace(rule, idspace)
  /\ Has(rule, "replacement") /\ Get(rule, "replacement") = <<" ","\t">>
  /\ ~ ClaimLevelOk(rule)
  /\ Has(rule, "status") /\ Get(rule, "status") \notin ValidStatuses
  /\ Raised(MissingReplacement)

\* C8: every ValueError of process_rule carries the rule record it was
\* raised for.
C8_ErrorCarriesRule ==
  Returned /\ frame.outcome = "raise" => frame.message.rules = <<rule>>

\* C9: a rule that passes the earlier checks and is not suppressed is emitted
\* as RedirectMatch <keyword> "<source>" "<replacement>", its keyword that of
\* its status field (permanent, temp for temporary, seeother for see other)
\* and temp for a path, prefix or regex rule without one; a status outside
\* the three makes process_rule fail with InvalidStatus.
C9_StatusKeyword ==
  Returned /\ ClaimReachesStatus(mode, rule, idspace) =>
    IF Has(rule, "status") /\ Get(rule, "status") \notin ValidStatuses
      THEN Raised(InvalidStatus)
      ELSE /\ frame.outcome = "str"
           /\ Has(rule, "status") =>
                frame.value = <<"R","e","d","i","r","e","c","t","M","a","t","c","h"," ">>
                      \o ClaimKeyword(Get(rule, "status")) \o <<" ","\"">>
                              \o frame.source \o <<"\""," ","\"">> \o frame.replacement
                                    \o <<"\"">>
           /\ ~ Has(rule, "status") /\ ~ Has(rule, "term_browser") =>
                frame.value = <<"R","e","d","i","r","e","c","t","M","a","t","c","h"," ","t","e",
                      "m","p"," ","\"">>
                              \o frame.source \o <<"\""," ","\"">> \o frame.replacement
                                    \o <<"\"">>

C9_Witness ==
  /\ Returned /\ mode = <<"p","r","o","j","e","c","t">> /\ idspace = <<"O","B","I">>
  /\ IsOfType(rule, "prefix") /\ Get(rule, "prefix") = <<"/","o","b","o","/","o","b","i","/">>
  /\ Has(rule, "status") /\ Get(rule, "status") = <<"s","e","e"," ","o","t","h","e","r">>
  /\ HasKeyword(<<"s","e","e","o","t","h","e","r">>)

-----------------------------------------------------------------------------
\* C10: main.

\* the lines of the directives of the rules rs, in their order
RECURSIVE Lines(_, _, _)
Lines(m, ids, rs) ==
  IF rs = << >> THEN << >>
  ELSE (IF process_rule(m, ids, Head(rs)).outcome = "str"
          THEN <<process_rule(m, ids, Head(rs)).value \o <<"\n">>>>
          ELSE << >>) \o Lines(m, ids, Tail(rs))

\* the first rule of rs whose processing fails, 0 when none does
FirstFailure(m, ids, rs) ==
  LET failing == {k \in 1..Len(rs) : process_rule(m, ids, rs[k]).outcome = "raise"}
  IN  IF failing = {} THEN 0 ELSE CHOOSE a \in failing : \A b \in failing : a <= b

\* the header of the mode
Header == IF mode = <<"p","r","o","j","e","c",
      "t">> THEN project_header(argv.yaml_file) ELSE top_header(idspace)

====
